---- MODULE Spec2Model ----
(***************************************************************************)
(* Model of micoenv/mico_robot_env.py (class MicoEnv): the episode         *)
(* lifecycle (_env_setup, _reset_sim, _step_callback), the goal sampler,   *)
(* the observation assembler (state_vector, _get_obs), the reward/success  *)
(* evaluators and _set_action.                                             *)
(*                                                                         *)
(* Lengths are integers in units of 0.01, so 0.1 is 10 and the point       *)
(* (-0.4, 0.2, 0.3) is <<-40, 20, 30>>.  Distances are compared through    *)
(* their squares: for non-negative d and t, d < t iff d*d < t*t.           *)
(* Python's None is the empty sequence <<>> for vector-valued fields.      *)
(***************************************************************************)
EXTENDS Integers, Sequences, FiniteSets

VARIABLES
    has_object, target_in_the_air, fixed_goal, reward_type, observation_type,
    pc, caller, state_file, explicit, goal, obj_pos, sim, arm,
    originalObjPosition, originalGoalPosition, originalGripPosition,
    ret, sampled, reward, success, obs, action, applied

vars == <<has_object, target_in_the_air, fixed_goal, reward_type,
          observation_type, pc, caller, state_file, explicit, goal, obj_pos,
          sim, arm, originalObjPosition, originalGoalPosition,
          originalGripPosition, ret, sampled, reward, success, obs,
          action, applied>>

cfgVars == <<has_object, target_in_the_air, fixed_goal, reward_type,
             observation_type>>

evalVars == <<reward, success, obs, action, applied>>

(***************************************************************************)
(* Bounds of the model.                                                    *)
(***************************************************************************)
\* a uniform draw takes the end points of its range and GridN points between
GridN == 1
\* normal(mean, sigma) draws mean and mean -/+ NSigma * sigma
NSigma == 4

(***************************************************************************)
(* Program constants (units of 0.01).                                      *)
(***************************************************************************)
distance_threshold == 10
height_offset == 6
n_actions == 4
table_low == <<-35, -25, 5>>
table_high == <<-20, 25, 20>>
\* the literal 0.1 of the rejection loop
MinGoalDistance == 10
\* the height 0.03 the goal sampler forces
GoalHeight == 3
\* standard deviation 0.05 of the fixed goal's jitter
GoalSigma == 5
\* the literal 1 the airborne draw is compared with, as 100 hundredths
AirProbability == 100
StateLen == 22

Zero3 == <<0, 0, 0>>
None == <<>>

Add(a, b) == [i \in 1..3 |-> a[i] + b[i]]
Sub(a, b) == [i \in 1..3 |-> a[i] - b[i]]

\* np.linalg.norm(goal_a - goal_b) squared
goal_distance_sq(goal_a, goal_b) ==
    LET d == Sub(goal_a, goal_b)
    IN  d[1] * d[1] + d[2] * d[2] + d[3] * d[3]

\* goal_distance(a, b) < t
CloserThan(a, b, t) == goal_distance_sq(a, b) < t * t

\* the point k parts of GridN + 1 along the way from lo to hi
Between(lo, hi, k) == lo + ((hi - lo) * k) \div (GridN + 1)

\* the values a uniform draw over [lo, hi] takes in the model
Grid(lo, hi) == {Between(lo, hi, k) : k \in 0..(GridN + 1)}

\* np_random.uniform(low, high, size=3): the corners of the box and GridN
\* points on its diagonal
Uniform3(low, high) ==
    {<<x, y, z>> : x \in {low[1], high[1]},
                   y \in {low[2], high[2]},
                   z \in {low[3], high[3]}}
    \cup {[i \in 1..3 |-> Between(low[i], high[i], k)] : k \in 1..GridN}

\* np.random.normal(mean, sigma)
Normal(mean, sigma) == {mean - NSigma * sigma, mean, mean + NSigma * sigma}

(***************************************************************************)
(* Goal sampler and object position draw.                                  *)
(***************************************************************************)
\* goal = np_random.uniform(table_low, table_high, size=3); goal[2] = 0.03
TableGoals ==
    {[g EXCEPT ![3] = GoalHeight] : g \in Uniform3(table_low, table_high)}

\* what "if np_random.uniform() < 1: goal[2] += np_random.uniform(0,
\* table_high[2])" adds to the height, the first draw in hundredths
AirOffsets ==
    {IF r < AirProbability THEN u ELSE 0 :
        r \in Grid(0, 99), u \in Grid(0, table_high[3])}

\* the goals _sample_goal can return
_sample_goal ==
    IF fixed_goal
    THEN IF target_in_the_air
         THEN {<<-40, 20, 30>>}
         ELSE {<<x, y, GoalHeight>> : x \in Normal(-30, GoalSigma),
                                      y \in Normal(20, GoalSigma)}
    ELSE IF target_in_the_air
         THEN {[g EXCEPT ![3] = g[3] + u] : g \in TableGoals,
                                            u \in AirOffsets}
         ELSE TableGoals

\* variant: high copied from table_low, which leaves one point to draw
ObjHigh_copies_low == table_low
\* high = table_high.copy(); if fixed_goal: high[1] = 0.0
ObjHigh == IF fixed_goal THEN [table_high EXCEPT ![2] = 0] ELSE table_high

\* np_random.uniform(table_low, high, size=3) with obj_pos[2] = height_offset
ObjDraws == {[p EXCEPT ![3] = height_offset] : p \in Uniform3(table_low, ObjHigh)}

\* variant: the loop compares with 0.01
TooClose_tenth(p, g) == CloserThan(p, g, MinGoalDistance \div 10)
\* the loop condition goal_distance(obj_pos, self.goal) < 0.1
TooClose(p, g) == CloserThan(p, g, MinGoalDistance)

(***************************************************************************)
(* The physics engine and the arm, as far as the environment reads them.   *)
(***************************************************************************)
\* link 6 of a freshly spawned arm
GripHome == <<-28, 0, 15>>

\* yaw = np.random.uniform(0, 2 * pi), in quarter turns
YawDraws == {0, 1}

NoSim == [grip_pos |-> None, grip_velp |-> None, joints |-> None,
          body |-> None, yaw |-> 0]
NoArm == [goalPosition |-> None, goalGripper |-> 0, grasping |-> FALSE]

\* init_arm: a new Mico in the emptied simulation
FreshArm == [goalPosition |-> GripHome, goalGripper |-> 0, grasping |-> FALSE]

\* the scene after resetSimulation, init_env, init_arm and createMultiBody
BuiltSim(op, yaw) ==
    [grip_pos |-> GripHome, grip_velp |-> Zero3, joints |-> <<0, 0>>,
     body |-> IF has_object THEN op ELSE None,
     yaw |-> IF has_object THEN yaw ELSE 0]

\* arm.set_graspable_object(self.body, should_be_grasping)
BuiltArm(should_be_grasping) ==
    [FreshArm EXCEPT !.grasping = has_object /\ should_be_grasping]

\* what the engine can make of a scene (a simulation step, a restored
\* snapshot): the gripper stops at distance_threshold from the goal with open
\* fingers, or it closes on the goal, carrying the object if there is one
Physics(s, a, g) ==
    {[sim |-> [s EXCEPT !.grip_pos = Add(g, <<6, 8, 0>>),
                        !.grip_velp = <<1, 0, 0>>,
                        !.joints = <<0, 0>>],
      arm |-> [a EXCEPT !.goalPosition = Add(g, <<6, 8, 0>>),
                        !.goalGripper = 0,
                        !.grasping = FALSE]],
     [sim |-> [s EXCEPT !.grip_pos = g,
                        !.grip_velp = Zero3,
                        !.joints = <<1, 1>>,
                        !.body = IF has_object THEN g ELSE None],
      arm |-> [a EXCEPT !.goalPosition = g,
                        !.goalGripper = 1,
                        !.grasping = has_object]]}

\* restoreState(fileName=state_file) of a snapshot store_state wrote while
\* the fingers were closed
Restored(scene) == [scene EXCEPT !.sim.joints = <<1, 1>>]

(***************************************************************************)
(* Observation assembler.                                                  *)
(***************************************************************************)
\* obj_pos and object_rel_pos of state_vector
ObjFields ==
    IF has_object
    THEN sim.body \o Sub(sim.body, sim.grip_pos)
    ELSE Zero3 \o Zero3

state_vector ==
    sim.grip_pos \o goal \o sim.joints \o ObjFields \o arm.goalPosition
        \o <<arm.goalGripper>> \o sim.grip_velp
        \o <<IF arm.grasping THEN 1 ELSE 0>>

get_state == state_vector

\* variant: obj_pos taken from the relative position state[11:14]
DecodeObjRel(st) ==
    [goal |-> SubSeq(st, 4, 6), obj_pos |-> SubSeq(st, 12, 14),
     arm_goal_pos |-> SubSeq(st, 15, 17), arm_goal_grip |-> st[18],
     should_be_grasping |-> st[22] # 0]
\* variant: goal cut as state[3:5]
Decode_short_goal(st) ==
    [goal |-> SubSeq(st, 4, 5), obj_pos |-> SubSeq(st, 9, 11),
     arm_goal_pos |-> SubSeq(st, 15, 17), arm_goal_grip |-> st[18],
     should_be_grasping |-> st[22] # 0]
\* the slices _reset_sim cuts out of an explicit state (state[a:b] is
\* SubSeq(state, a + 1, b))
Decode(st) ==
    [goal |-> SubSeq(st, 4, 6), obj_pos |-> SubSeq(st, 9, 11),
     arm_goal_pos |-> SubSeq(st, 15, 17), arm_goal_grip |-> st[18],
     should_be_grasping |-> st[22] # 0]

(***************************************************************************)
(* Reward and success evaluators.                                          *)
(***************************************************************************)
\* reward_type values a caller can pass; only the first two are handled
RewardTypes == {"sparse", "positive", "dense"}

Unset == [kind |-> "unset", val |-> 0]
Value(n) == [kind |-> "int", val |-> n]
\* falling off the end of compute_reward returns None
NoneValue == [kind |-> "None", val |-> 0]

compute_reward(achieved_goal, desired_goal) ==
    LET near == CloserThan(achieved_goal, desired_goal, distance_threshold)
    IN  IF reward_type = "sparse"
        THEN Value(IF near THEN 3 ELSE -1)
        ELSE IF reward_type = "positive"
             THEN Value(IF near THEN 5 ELSE 0)
             ELSE NoneValue

\* variant: the reward measured on the gripper even with an object
_get_reward_of_gripper == compute_reward(sim.grip_pos, goal)
_get_reward ==
    IF has_object
    THEN compute_reward(sim.body, goal)
    ELSE compute_reward(sim.grip_pos, goal)

_is_success ==
    IF has_object
    THEN CloserThan(sim.body, goal, distance_threshold)
    ELSE CloserThan(sim.grip_pos, goal, distance_threshold)

(***************************************************************************)
(* _get_obs.                                                               *)
(***************************************************************************)
\* observation_type values a caller can pass; the last two are unsupported
ObservationTypes ==
    {"low_dim", "pixels", "pixels_depth", "composed", "depth", "raw_pixels"}

\* "pixels" in observation_type or "composed" in observation_type
MentionsImage ==
    observation_type \in {"pixels", "pixels_depth", "composed", "raw_pixels"}

\* shape of the buffer self.render(mode="rgb_array") returns
RenderShape == <<84, 84, 3>>

\* the channel pixels[:, :, 3] selects
DepthChannel == 3

NoObs == [kind |-> "unset", low_dim |-> None, pixels |-> None]
Raised(e) == [kind |-> e, low_dim |-> None, pixels |-> None]

_get_obs ==
    LET low_dim == state_vector
    IN  IF MentionsImage /\ RenderShape # <<84, 84, 3>>
        THEN Raised("AssertionError")
        ELSE IF observation_type = "low_dim"
        THEN [kind |-> "low_dim", low_dim |-> low_dim, pixels |-> None]
        ELSE IF observation_type = "pixels"
        THEN [kind |-> "pixels", low_dim |-> None, pixels |-> RenderShape]
        ELSE IF observation_type = "pixels_depth"
        THEN IF DepthChannel < RenderShape[3]
             THEN [kind |-> "channel", low_dim |-> None,
                   pixels |-> SubSeq(RenderShape, 1, 2)]
             ELSE Raised("IndexError")
        ELSE IF observation_type = "composed"
        THEN [kind |-> "composed", low_dim |-> low_dim,
              pixels |-> RenderShape]
        ELSE Raised("Exception")

(***************************************************************************)
(* _set_action.  Action components are in units of 0.01, the components    *)
(* handed to the actuator in units of 0.0001.                              *)
(***************************************************************************)
\* np.clip(action, -1, 1)
ClipLow == -100
ClipHigh == 100
Clip(x) == IF x < ClipLow THEN ClipLow ELSE IF x > ClipHigh THEN ClipHigh ELSE x

\* action * 0.05: five ten-thousandths for each hundredth
ActionScale == 5

NotApplied == [kind |-> "unset", vec |-> None]

\* variant: action[3] = 0 left out
_set_action_keeps_fourth(a) ==
    IF Len(a) # n_actions
    THEN [kind |-> "AssertionError", vec |-> None]
    ELSE [kind |-> "applied",
          vec |-> [i \in 1..n_actions |-> Clip(a[i]) * ActionScale]]
\* what _set_action hands to arm.apply_action, or the assertion it fails
_set_action(a) ==
    IF Len(a) # n_actions
    THEN [kind |-> "AssertionError", vec |-> None]
    ELSE [kind |-> "applied",
          vec |-> [i \in 1..n_actions |->
                      (IF i = 4 THEN 0 ELSE Clip(a[i])) * ActionScale]]

(***************************************************************************)
(* Episode lifecycle.                                                      *)
(*   pc = "env_setup"  the constructor is in _env_setup's retry loop       *)
(*   pc = "sampling"   _reset_sim is in its rejection loop                 *)
(*   pc = "idle"       the environment is constructed, no call is running  *)
(***************************************************************************)
\* snapshot paths a caller passes: none, a path restoreState cannot load, a
\* path written by store_state
StateFiles == {"", "corrupt", "saved"}

\* variant: the exception of restoreState is not caught
RestoreFailed_reraises == "Exception"
\* what _reset_sim answers when restoreState raises: the bare except prints a
\* warning and returns False
RestoreFailed == "False"

\* where a finished _reset_sim returns to: _env_setup loops until it gets True
ReturnTo(r) == IF caller' = "env_setup" /\ r # "True" THEN "env_setup" ELSE "idle"

\* lines 170-225 of _reset_sim: rebuild the scene around self.goal, restore the
\* snapshot if one is named, record the originals
BuildScene(op, arm_goal_pos, arm_goal_grip, should_be_grasping, drawn) ==
    \E yaw \in YawDraws :
      LET built == [sim |-> BuiltSim(op, yaw),
                    arm |-> BuiltArm(should_be_grasping)]
      IN  /\ sampled' = drawn \cup (IF has_object THEN {"yaw"} ELSE {})
          /\ originalObjPosition' =
                 IF has_object THEN op ELSE originalObjPosition
          /\ IF state_file' = "corrupt"
             THEN /\ sim' = built.sim
                  /\ arm' = built.arm
                  /\ ret' = RestoreFailed
                  /\ UNCHANGED <<originalGoalPosition, originalGripPosition>>
             ELSE \E scene \in {IF state_file' = "saved"
                                THEN Restored(built) ELSE built} :
                    /\ sim' = scene.sim
                    /\ arm' = IF arm_goal_pos # None
                              THEN [scene.arm EXCEPT
                                       !.goalPosition = arm_goal_pos,
                                       !.goalGripper = arm_goal_grip]
                              ELSE scene.arm
                    /\ originalGoalPosition' = goal'
                    /\ originalGripPosition' = scene.sim.grip_pos
                    /\ ret' = "True"
          /\ pc' = ReturnTo(ret')

\* _reset_sim(state=None, state_file=sf) up to the goal draw.
\* The old scene is torn down by resetSimulation only after the rejection
\* loop, but every path through _reset_sim rebuilds it (and, with an object,
\* rewrites originalObjPosition) before returning and no other call runs
\* meanwhile, so the model drops them as the call begins.
SampleScene(c, sf) ==
    /\ caller' = c
    /\ state_file' = sf
    /\ explicit' = FALSE
    /\ goal' \in _sample_goal
    /\ obj_pos' = None
    /\ sampled' = {"goal"}
    /\ ret' = "none"
    /\ pc' = "sampling"
    /\ sim' = NoSim
    /\ arm' = NoArm
    /\ originalObjPosition' = None
    /\ UNCHANGED <<originalGoalPosition, originalGripPosition>>
    /\ UNCHANGED <<cfgVars, evalVars>>

\* _env_setup: while not self._reset_sim(): pass
EnvSetup ==
    /\ pc = "env_setup"
    /\ SampleScene("env_setup", "")

\* reset(state_file=sf) without an explicit state
ResetSampled ==
    /\ pc = "idle"
    /\ \E sf \in StateFiles : SampleScene("reset", sf)

\* obj_pos = uniform(...); obj_pos[2] = height_offset: the first draw (lines
\* 159-160) and each turn of the rejection loop (lines 164-165), taken while
\* the last draw is closer to the goal than 0.1
DrawObjPos ==
    /\ pc = "sampling"
    /\ IF obj_pos = None THEN TRUE ELSE TooClose(obj_pos, goal)
    /\ obj_pos' \in ObjDraws
    /\ sampled' = sampled \cup {"obj_pos"}
    /\ UNCHANGED <<pc, caller, state_file, explicit, goal, sim, arm,
                   originalObjPosition, originalGoalPosition,
                   originalGripPosition, ret>>
    /\ UNCHANGED <<cfgVars, evalVars>>

\* the draw is far enough: leave the loop and finish _reset_sim
AcceptDraw ==
    /\ pc = "sampling"
    /\ obj_pos # None
    /\ ~TooClose(obj_pos, goal)
    /\ UNCHANGED <<caller, state_file, explicit, goal>>
    /\ obj_pos' = None
    /\ BuildScene(obj_pos, None, 0, FALSE, sampled)
    /\ UNCHANGED <<cfgVars, evalVars>>

\* reset(state=st, state_file=sf) with an explicit state
ResetState ==
    /\ pc = "idle"
    /\ \E st \in {state_vector, SubSeq(state_vector, 1, StateLen - 1)},
          sf \in StateFiles :
         IF Len(st) # StateLen
         THEN \* assert state.shape == (22,)
              /\ ret' = "AssertionError"
              /\ state_file' = ""
              /\ explicit' = TRUE
              /\ UNCHANGED <<pc, caller, goal, obj_pos,
                             sim, arm, originalObjPosition,
                             originalGoalPosition, originalGripPosition,
                             sampled>>
         ELSE /\ caller' = "reset"
              /\ state_file' = sf
              /\ explicit' = TRUE
              /\ goal' = Decode(st).goal
              /\ obj_pos' = None
              /\ LET d == Decode(st)
                 IN  BuildScene(d.obj_pos, d.arm_goal_pos, d.arm_goal_grip,
                                d.should_be_grasping, {})
    /\ UNCHANGED <<cfgVars, evalVars>>

\* _step_callback: arm.step_simulation() advances the engine.  The record of
\* the last _reset_sim call (its arguments, its draws, what it returned) and
\* the values read off the old scene end with the next call.
Step ==
    /\ pc = "idle"
    /\ \E scene \in Physics(sim, arm, goal) :
         /\ sim' = scene.sim
         /\ arm' = scene.arm
    /\ state_file' = ""
    /\ explicit' = FALSE
    /\ ret' = "none"
    /\ sampled' = {}
    /\ reward' = Unset
    /\ success' = "unset"
    /\ obs' = NoObs
    /\ UNCHANGED <<pc, caller, goal, obj_pos, originalObjPosition,
                   originalGoalPosition, originalGripPosition>>
    /\ UNCHANGED <<cfgVars, action, applied>>

\* self._get_reward()
GetReward ==
    /\ pc = "idle"
    /\ reward' = _get_reward
    /\ UNCHANGED <<cfgVars, pc, caller, state_file, explicit, goal, obj_pos,
                   sim, arm, originalObjPosition, originalGoalPosition,
                   originalGripPosition, ret, sampled, success, obs, action,
                   applied>>

\* self._is_success(_)
IsSuccess ==
    /\ pc = "idle"
    /\ success' = (IF _is_success THEN "True" ELSE "False")
    /\ UNCHANGED <<cfgVars, pc, caller, state_file, explicit, goal, obj_pos,
                   sim, arm, originalObjPosition, originalGoalPosition,
                   originalGripPosition, ret, sampled, reward, obs, action,
                   applied>>

\* self._get_obs()
GetObs ==
    /\ pc = "idle"
    /\ obs' = _get_obs
    /\ UNCHANGED <<cfgVars, pc, caller, state_file, explicit, goal, obj_pos,
                   sim, arm, originalObjPosition, originalGoalPosition,
                   originalGripPosition, ret, sampled, reward, success,
                   action, applied>>

\* the action vectors a caller passes: four components below, at, within and
\* above the clipping range, and vectors of the wrong shape
ActionValues == {-150, -100, 30, 250}
ActionInputs ==
    {<<a, b, c, d>> : a \in ActionValues, b \in ActionValues,
                      c \in ActionValues, d \in ActionValues}
    \cup {<<a, b, c>> : a \in ActionValues, b \in ActionValues,
                        c \in ActionValues}
    \cup {<<a, 0, 0, d, e>> : a \in ActionValues, d \in ActionValues,
                              e \in ActionValues}

\* self._set_action(a)
SetAction ==
    /\ pc = "idle"
    /\ \E a \in ActionInputs :
         /\ action' = a
         /\ applied' = _set_action(a)
    /\ UNCHANGED <<cfgVars, pc, caller, state_file, explicit, goal, obj_pos,
                   sim, arm, originalObjPosition, originalGoalPosition,
                   originalGripPosition, ret, sampled, reward, success, obs>>

\* the fields of a MicoEnv whose constructor has reached _env_setup
Unbuilt ==
    /\ pc = "env_setup"
    /\ caller = "env_setup"
    /\ state_file = ""
    /\ explicit = FALSE
    /\ goal = None
    /\ obj_pos = None
    /\ sim = NoSim
    /\ arm = NoArm
    /\ originalObjPosition = None
    /\ originalGoalPosition = None
    /\ originalGripPosition = None
    /\ ret = "none"
    /\ sampled = {}
    /\ reward = Unset
    /\ success = "unset"
    /\ obs = NoObs
    /\ action = None
    /\ applied = NotApplied

\* MicoEnv(has_object, target_in_the_air, fixed_goal) with the default
\* reward_type and observation_type
Init ==
    /\ has_object \in BOOLEAN
    /\ target_in_the_air \in BOOLEAN
    /\ fixed_goal \in BOOLEAN
    /\ reward_type = "positive"
    /\ observation_type = "low_dim"
    /\ Unbuilt

\* MicoEnv(has_object, target_in_the_air, reward_type, observation_type)
\* with the default fixed_goal
EvalInit ==
    /\ has_object \in BOOLEAN
    /\ target_in_the_air \in BOOLEAN
    /\ fixed_goal = TRUE
    /\ reward_type \in RewardTypes
    /\ observation_type \in ObservationTypes
    /\ Unbuilt

\* MicoEnv() with every argument at its default
ActionInit ==
    /\ has_object = TRUE
    /\ target_in_the_air = TRUE
    /\ fixed_goal = TRUE
    /\ reward_type = "positive"
    /\ observation_type = "low_dim"
    /\ Unbuilt

Next ==
    \/ EnvSetup
    \/ ResetSampled
    \/ DrawObjPos
    \/ AcceptDraw
    \/ ResetState
    \/ Step

Spec == Init /\ [][Next]_vars

\* one episode and the values read off it
EvalNext ==
    \/ EnvSetup
    \/ DrawObjPos
    \/ AcceptDraw
    \/ Step
    \/ GetReward
    \/ IsSuccess
    \/ GetObs

EvalSpec == EvalInit /\ [][EvalNext]_vars

\* the constructed default environment and the actions handed to it
ActionNext ==
    \/ EnvSetup
    \/ DrawObjPos
    \/ AcceptDraw
    \/ SetAction

ActionSpec == ActionInit /\ [][ActionNext]_vars

\* the rejection loop under fair sampling: a draw that lands far enough from
\* the goal is not avoided for ever, and a running call goes on
FairSpec ==
    /\ Spec
    /\ WF_vars(EnvSetup)
    /\ WF_vars(AcceptDraw)
    /\ SF_vars(DrawObjPos /\ ~TooClose(obj_pos', goal))

(***************************************************************************)
(* Claims about the episode lifecycle.                                     *)
(***************************************************************************)
\* the last _reset_sim call ran to a return statement
Returned == pc = "idle" /\ ret \in {"True", "False", "Exception"}

\* C1: a reset whose snapshot restore fails returns False without raising,
\* after any history of earlier resets, and a reset without a snapshot file
\* returns True.
C1_FailedRestoreReturnsFalse ==
    Returned =>
        /\ state_file = "corrupt" => ret = "False"
        /\ state_file = "" => ret = "True"

\* a failed restore on top of an earlier episode
C1_Witness ==
    /\ Returned
    /\ state_file = "corrupt"
    /\ ret = "False"
    /\ originalGoalPosition # None

\* C2: whenever the environment is constructed and idle, state_vector has 22
\* elements in the order gripper position, goal, gripper joints, object
\* position, object relative to gripper, arm goal position, arm goal gripper,
\* gripper velocity, grasping flag; the object fields are zero without object.
C2_StateVectorLayout ==
    pc = "idle" =>
        LET v == get_state
        IN  /\ Len(v) = 22
            /\ SubSeq(v, 1, 3) = sim.grip_pos
            /\ SubSeq(v, 4, 6) = goal
            /\ SubSeq(v, 7, 8) = sim.joints
            /\ SubSeq(v, 9, 11) = (IF has_object THEN sim.body ELSE Zero3)
            /\ SubSeq(v, 12, 14) =
                   (IF has_object THEN Sub(sim.body, sim.grip_pos) ELSE Zero3)
            /\ SubSeq(v, 15, 17) = arm.goalPosition
            /\ v[18] = arm.goalGripper
            /\ SubSeq(v, 19, 21) = sim.grip_velp
            /\ v[22] = (IF arm.grasping THEN 1 ELSE 0)

\* an explicit-state reset succeeded and a step moved the arm
C2_Witness ==
    /\ pc = "idle"
    /\ originalObjPosition # None
    /\ originalObjPosition = goal
    /\ sim.grip_velp # Zero3
    /\ Len(get_state) = 22

\* C4: after a reset that sampled its scene, the position the object was
\* created at is at least 0.1 from the goal.
C4_SampledObjectFarFromGoal ==
    (Returned /\ ~explicit /\ has_object) =>
        /\ goal_distance_sq(originalObjPosition, goal)
               >= MinGoalDistance * MinGoalDistance
        /\ sim.body = originalObjPosition

\* a sampled episode whose goal lies straight above or below the object
C4_Witness ==
    /\ Returned
    /\ ~explicit
    /\ has_object
    /\ ~fixed_goal
    /\ originalObjPosition[1] = goal[1]
    /\ originalObjPosition[2] = goal[2]

\* a step in which reset(state=state_vector()) returns True
RoundTrip == pc = "idle" /\ explicit' /\ ret' = "True"

\* C5 as claimed: the round trip keeps goal and object position and draws
\* nothing at random.
C5_RoundTripNoSampling ==
    [][RoundTrip =>
          /\ goal' = SubSeq(state_vector, 4, 6)
          /\ has_object => originalObjPosition' = SubSeq(state_vector, 9, 11)
          /\ sampled' = {}]_vars

\* C5 as amended: the round trip keeps goal and object position and draws
\* neither of them; the yaw of the object is still drawn at random.
C5_RoundTripKeepsGoalAndObject ==
    [][RoundTrip =>
          /\ goal' = SubSeq(state_vector, 4, 6)
          /\ has_object =>
                 /\ originalObjPosition' = SubSeq(state_vector, 9, 11)
                 /\ sim'.body = SubSeq(state_vector, 9, 11)
          /\ sampled' \cap {"goal", "obj_pos"} = {}
          /\ sampled' = (IF has_object THEN {"yaw"} ELSE {})]_vars

\* a round trip of an episode whose object had been carried to the goal
C5_Witness ==
    /\ Returned
    /\ explicit
    /\ ret = "True"
    /\ has_object
    /\ originalObjPosition = goal
    /\ sim.body = goal

\* C7: a reset that failed on its snapshot leaves nothing of the failed
\* attempt visible: the goal and the recorded original positions belong to one
\* episode.
C7_NoPartialEpisode ==
    pc = "idle" => originalGoalPosition = goal

\* C10: under fair sampling the rejection loop ends, so every reset returns
\* and the constructor leaves _env_setup.
C10_ResetTerminates ==
    /\ (pc = "sampling") ~> (pc = "idle")
    /\ (pc = "env_setup") ~> (pc = "idle")

\* the loop has a draw to reject
C10_Witness ==
    /\ pc = "sampling"
    /\ obj_pos # None
    /\ TooClose(obj_pos, goal)

(***************************************************************************)
(* Claims about the evaluators.                                            *)
(***************************************************************************)
\* the entity success is measured on: the object if there is one, else the
\* gripper
Tracked == IF has_object THEN sim.body ELSE sim.grip_pos

Near ==
    goal_distance_sq(Tracked, goal) < distance_threshold * distance_threshold

\* C3: the sparse reward is 3 when the tracked entity is nearer the goal than
\* distance_threshold and -1 otherwise, the positive reward 5 and 0; success
\* is true in exactly the states that earn 3 or 5.
C3_RewardMatchesSuccess ==
    /\ (reward # Unset /\ reward_type = "sparse") =>
           reward = [kind |-> "int", val |-> IF Near THEN 3 ELSE -1]
    /\ (reward # Unset /\ reward_type = "positive") =>
           reward = [kind |-> "int", val |-> IF Near THEN 5 ELSE 0]
    /\ success # "unset" => (success = "True" <=> Near)
    /\ (reward # Unset /\ success # "unset"
            /\ reward_type \in {"sparse", "positive"}) =>
           (success = "True" <=> reward.val \in {3, 5})

\* the object lies on the goal and earns the sparse 3 while the gripper has
\* moved off to the threshold distance
C3_Witness ==
    /\ has_object
    /\ reward_type = "sparse"
    /\ reward = [kind |-> "int", val |-> 3]
    /\ success = "True"
    /\ goal_distance_sq(sim.grip_pos, goal)
           = distance_threshold * distance_threshold

\* C8: no constructed environment has a reward mode other than sparse or
\* positive, and compute_reward never returns an undefined reward.
C8_RewardModeRejected ==
    (pc = "idle" /\ reward # Unset) =>
        /\ reward_type \in {"sparse", "positive"}
        /\ reward.kind = "int"

\* C9: _get_obs returns the 22-element vector for low_dim, the 84x84x3 image
\* for pixels, one 84x84 channel of it for pixels_depth, both for composed,
\* and raises for every other mode.
C9_ObservationPerMode ==
    obs # NoObs =>
        /\ observation_type = "low_dim" =>
               (obs.kind = "low_dim" /\ Len(obs.low_dim) = 22)
        /\ observation_type = "pixels" =>
               (obs.kind = "pixels" /\ obs.pixels = <<84, 84, 3>>)
        /\ observation_type = "pixels_depth" =>
               (obs.kind = "channel" /\ obs.pixels = <<84, 84>>)
        /\ observation_type = "composed" =>
               /\ obs.kind = "composed"
               /\ Len(obs.low_dim) = 22
               /\ obs.pixels = <<84, 84, 3>>
        /\ observation_type
               \notin {"low_dim", "pixels", "pixels_depth", "composed"} =>
               obs.kind = "Exception"

(***************************************************************************)
(* Claims about _set_action.                                               *)
(***************************************************************************)
\* C6: for a 4-element action the actuator gets 0 as fourth component and
\* 0.05 times the input clipped to [-1, 1] in the first three; any other
\* shape fails the assertion and the actuator gets nothing.
C6_ActuatorInput ==
    action # None =>
        IF Len(action) = 4
        THEN /\ applied.kind = "applied"
             /\ Len(applied.vec) = 4
             /\ applied.vec[4] = 0
             /\ \A i \in 1..3 :
                  /\ action[i] < -100 => applied.vec[i] = -500
                  /\ action[i] > 100 => applied.vec[i] = 500
                  /\ action[i] \in -100..100 =>
                         applied.vec[i] = 5 * action[i]
        ELSE applied = [kind |-> "AssertionError", vec |-> None]

\* an action with a non-zero fourth component and a first one to be clipped
C6_Witness ==
    /\ action # None
    /\ Len(action) = 4
    /\ action[4] # 0
    /\ action[1] > 100
    /\ applied.kind = "applied"

====
